---- MODULE Spec2Model ----
(***************************************************************************)
(* A model of the Universal Website Scraper: the orchestrator              *)
(* (scraper.py), the static pass (static_scraper.py), the dynamic pass     *)
(* with its four interaction phases (js_scraper.py), the extraction and    *)
(* fallback policy of parser.py and the request handler of main.py.        *)
(*                                                                         *)
(* One request is one asyncio task.  Every `await` on an external          *)
(* collaborator is a step of the model: it may succeed, raise, or (once,   *)
(* while the global deadline of asyncio.wait_for is still armed) be        *)
(* interrupted by CancelledError.  CancelledError derives from             *)
(* BaseException: a bare `except:` catches it, `except Exception` does     *)
(* not.  Where each exception goes is translated from the try/except       *)
(* structure of the source.                                                *)
(*                                                                         *)
(* Abstractions: a text is modelled by the length of its cleaned form; a   *)
(* markup string by a short sequence of one-character strings (the         *)
(* fragment the framework scan reads); an md5 digest by the tuple that     *)
(* was hashed; an exception text interpolated in a message is dropped.     *)
(***************************************************************************)
EXTENDS Integers, Sequences, FiniteSets, TLC

VARIABLES
    pc,             \* position of the request's task
    deadline,       \* wait_for's timer: "armed" | "fired"
    cancelledAt,    \* the kind of await at which CancelledError was thrown, or "none"
    url,            \* the seed URL of the request
    page,           \* what the static fetch returned (markup and its tree)
    static_result,  \* StaticScraper.scrape's return value
    all_errors,     \* _scrape_internal's all_errors
    js_result,      \* JavaScriptScraper.scrape's return value
    meta,           \* _scrape_internal's meta
    sections,       \* _scrape_internal's sections
    interactions,   \* _scrape_internal's interactions
    response,       \* what the request handler returns
    errors,         \* JavaScriptScraper.scrape's errors
    log,            \* JavaScriptScraper.scrape's interactions dict
    browser,        \* JavaScriptScraper.scrape's browser variable
    browserOpen,    \* whether the browser process is running
    pending,        \* what travels through the finally block: "return" | "cancel"
    sel,            \* index of the selector being tried in a phase
    tabs,           \* number of elements tabs[:3] still to click
    idx,            \* enumerate index i in _click_tabs
    depth,          \* loop variable depth of a phase
    clicked,        \* the clicked flag of a phase iteration
    phases,         \* history: the phases _perform_interactions has entered
    faults,         \* history: the collaborator calls that have raised
    next_clicks,    \* history: the link.click() calls of _follow_pagination that returned
    p_sections,     \* input of should_fallback_to_js under SpecPolicy
    p_html,         \* input of should_fallback_to_js under SpecPolicy
    p_result,       \* its result under SpecPolicy
    x_snapshot,     \* the tree given to detect_sections under SpecExtract
    x_soup,         \* that tree as the runs of detect_sections have left it
    x_runs,         \* the section lists returned by the successive runs
    l_element,      \* the element given to extract_links and extract_images (SpecLinks)
    l_base,         \* the base URL given to them
    l_result,       \* what they return
    c_element,      \* the element given to classify_section_type (SpecClassify)
    c_result        \* what it returns

vars == << pc, deadline, cancelledAt, url, page, static_result, all_errors,
           js_result, meta, sections, interactions, response, errors, log,
           browser, browserOpen, pending, sel, tabs, idx, depth, clicked,
           phases, faults, next_clicks, p_sections, p_html, p_result,
           x_snapshot, x_soup, x_runs, l_element, l_base, l_result,
           c_element, c_result >>

None == "None"

-----------------------------------------------------------------------------
(* Program constants *)

static_timeout == 10
total_timeout == 120
max_depth == 3
TabLimit == 3
MinSectionText == 10
MinDivText == 50
MinTotalText == 100
RichTotalText == 500
max_length == 500
EllipsisLen == 3
FallbackRawHtmlLen == 21

(* Bounds of the model *)

MaxSections == 2
MaxMatches == 1
MaxChildren == 2
MaxAnchors == 3
TabMatches == 4

-----------------------------------------------------------------------------
(* Strings as sequences of one-character strings *)

Lower(c) ==
    CASE c = "A" -> "a" [] c = "B" -> "b" [] c = "C" -> "c" [] c = "D" -> "d"
      [] c = "E" -> "e" [] c = "F" -> "f" [] c = "G" -> "g" [] c = "H" -> "h"
      [] c = "I" -> "i" [] c = "J" -> "j" [] c = "K" -> "k" [] c = "L" -> "l"
      [] c = "M" -> "m" [] c = "N" -> "n" [] c = "O" -> "o" [] c = "P" -> "p"
      [] c = "Q" -> "q" [] c = "R" -> "r" [] c = "S" -> "s" [] c = "T" -> "t"
      [] c = "U" -> "u" [] c = "V" -> "v" [] c = "W" -> "w" [] c = "X" -> "x"
      [] c = "Y" -> "y" [] c = "Z" -> "z"
      [] OTHER -> c

\* str.lower()
lower(s) == [i \in 1..Len(s) |-> Lower(s[i])]

\* Python's `sub in s` on strings
Contains(sub, s) ==
    \E i \in 0..(Len(s) - Len(sub)) : SubSeq(s, i + 1, i + Len(sub)) = sub

js_frameworks ==
    << <<"r","e","a","c","t">>,
       <<"v","u","e">>,
       <<"a","n","g","u","l","a","r">>,
       <<"n","e","x","t",".","j","s">>,
       <<"_","_","n","e","x","t">>,
       <<"n","u","x","t">> >>

-----------------------------------------------------------------------------
(* parser.py: the fallback decision policy *)

RECURSIVE SumText(_)
\* sum(len(s['content']['text']) for s in sections)
SumText(secs) ==
    IF secs = << >> THEN 0
    ELSE Head(secs).content.text + SumText(Tail(secs))

rich_content_mut(total_text_length) == total_text_length >= RichTotalText
\* `if total_text_length > 500` inside the framework loop
rich_content(total_text_length) == total_text_length > RichTotalText

RECURSIVE ScanFrameworks(_, _, _)
\* the loop `for framework in js_frameworks` from index i on
ScanFrameworks(i, html_lower, total_text_length) ==
    IF i > Len(js_frameworks) THEN FALSE
    ELSE IF Contains(js_frameworks[i], html_lower)
         THEN (IF rich_content(total_text_length) THEN FALSE ELSE TRUE)
         ELSE ScanFrameworks(i + 1, html_lower, total_text_length)

should_fallback_to_js(secs, html) ==
    LET total_text_length == SumText(secs)
    IN  IF total_text_length < MinTotalText THEN TRUE
        ELSE ScanFrameworks(1, lower(html), total_text_length)

-----------------------------------------------------------------------------
(* parser.py: URLs.  A URL string is the sequence of its tokens: a scheme   *)
(* with its colon ("https:"), "//", a host, "/", a path segment, "#", a     *)
(* fragment; a path segment may be "." or "..".  The hrefs considered have  *)
(* no query, and no fragment after a path.                                  *)

Schemes == {"http:", "https:"}

StartsWith(s, token) == s # << >> /\ s[1] = token

RECURSIVE SplitFrom(_, _)
\* path.split('/') from the tokens on, current being the segment read so far;
\* the empty segment is ""
SplitFrom(tokens, current) ==
    IF tokens = << >> THEN << current >>
    ELSE IF Head(tokens) = "/" THEN << current >> \o SplitFrom(Tail(tokens), "")
    ELSE SplitFrom(Tail(tokens), Head(tokens))

split(path) == SplitFrom(path, "")

RECURSIVE join(_)
\* '/'.join(segments)
join(segments) ==
    IF segments = << >> THEN << >>
    ELSE (IF Head(segments) = "" THEN << >> ELSE << Head(segments) >>)
         \o (IF Len(segments) > 1 THEN << "/" >> \o join(Tail(segments)) ELSE << >>)

\* `if base_parts[-1] != '': del base_parts[-1]`
base_dir(base_parts) ==
    IF base_parts[Len(base_parts)] # ""
    THEN SubSeq(base_parts, 1, Len(base_parts) - 1)
    ELSE base_parts

\* `segments[1:-1] = filter(None, segments[1:-1])`
filter_middle(segments) ==
    IF Len(segments) <= 2 THEN segments
    ELSE << segments[1] >>
         \o SelectSeq(SubSeq(segments, 2, Len(segments) - 1), LAMBDA x : x # "")
         \o << segments[Len(segments)] >>

pop_mut(resolved_path) == resolved_path
\* `resolved_path.pop()`, IndexError ignored
pop(resolved_path) ==
    IF resolved_path = << >> THEN << >>
    ELSE SubSeq(resolved_path, 1, Len(resolved_path) - 1)

RECURSIVE ResolveFrom(_, _)
\* the loop `for seg in segments` of urljoin
ResolveFrom(segments, resolved_path) ==
    IF segments = << >> THEN resolved_path
    ELSE IF Head(segments) = ".." THEN ResolveFrom(Tail(segments), pop(resolved_path))
    ELSE IF Head(segments) = "." THEN ResolveFrom(Tail(segments), resolved_path)
    ELSE ResolveFrom(Tail(segments), resolved_path \o << Head(segments) >>)

\* the path urljoin gives to urlunparse, which puts "/" before a path that
\* does not start with one
resolved(segments) ==
    LET resolved_path ==
            ResolveFrom(segments, << >>)
            \o (IF segments[Len(segments)] \in {".", ".."} THEN << "" >> ELSE << >>)
        path == IF join(resolved_path) = << >> THEN << "/" >> ELSE join(resolved_path)
    IN  IF path[1] = "/" THEN path ELSE << "/" >> \o path

\* urllib.parse.urljoin(base, url) for an absolute base (scheme, "//", host,
\* path) without fragment
urljoin(base, url_) ==
    IF url_ = << >> THEN base
    ELSE IF url_[1] \in Schemes THEN url_
    ELSE IF url_[1] = "//" THEN << base[1] >> \o url_
    ELSE IF url_[1] = "#" THEN (IF Len(url_) = 1 THEN base ELSE base \o url_)
    ELSE IF url_[1] = "/" THEN SubSeq(base, 1, 3) \o resolved(split(url_))
    ELSE SubSeq(base, 1, 3)
         \o resolved(filter_middle(base_dir(split(SubSeq(base, 4, Len(base))))
                                   \o split(url_)))

normalize_url(base_url, url_) ==
    IF url_ = << >> THEN << >>
    ELSE IF StartsWith(url_, "//") THEN << base_url[1] >> \o url_
    ELSE urljoin(base_url, url_)

-----------------------------------------------------------------------------
(* parser.py: the structural extraction engine.  An element of the tree is  *)
(* a record: tag, class (the class list joined by spaces), id, text (length *)
(* of the cleaned text, script and style strings not counted), script       *)
(* (length of the markup of its script and style elements), html (length of *)
(* the rest of its markup), lists (number of descendant ul/ol), anchors and *)
(* imgs (its a and img elements in document order).  A tree is has_body     *)
(* (whether soup.find('body') finds one) and children, its elements in      *)
(* document order; landmarks are not nested.                                *)

SemanticTags == {"header", "nav", "main", "section", "article", "aside", "footer"}

\* any(keyword in classes or keyword in id_attr for keyword in keywords)
AnyKeyword(keywords, classes, id_attr) ==
    \E k \in 1..Len(keywords) :
        Contains(keywords[k], classes) \/ Contains(keywords[k], id_attr)

list_heavy_mut(element) == element.lists > 2
\* `lists = element.find_all(['ul', 'ol'], recursive=True)`, `len(lists) >= 2`
list_heavy(element) == element.lists >= 2

classify_section_type(element) ==
    LET tag_name == element.tag
        classes == lower(element.class)
        id_attr == lower(element.id)
    IN  IF tag_name = "nav" THEN "nav"
        ELSE IF tag_name = "footer" THEN "footer"
        ELSE IF tag_name = "header" THEN "hero"
        ELSE IF AnyKeyword(<< <<"h","e","r","o">>, <<"b","a","n","n","e","r">>,
                              <<"j","u","m","b","o","t","r","o","n">> >>,
                           classes, id_attr) THEN "hero"
        ELSE IF AnyKeyword(<< <<"p","r","i","c","i","n","g">>, <<"p","r","i","c","e">>,
                              <<"p","l","a","n">> >>,
                           classes, id_attr) THEN "pricing"
        ELSE IF AnyKeyword(<< <<"f","a","q">>, <<"q","u","e","s","t","i","o","n">>,
                              <<"a","c","c","o","r","d","i","o","n">> >>,
                           classes, id_attr) THEN "faq"
        ELSE IF AnyKeyword(<< <<"g","r","i","d">>, <<"c","a","r","d","s">>,
                              <<"f","e","a","t","u","r","e","s">> >>,
                           classes, id_attr) THEN "grid"
        ELSE IF AnyKeyword(<< <<"l","i","s","t">> >>, classes, id_attr) THEN "list"
        ELSE IF list_heavy(element) THEN "list"
        ELSE "section"

\* the md5 digest of "tag-classes-index", modelled by the tuple that is hashed;
\* an id is a tuple, a literal id a tuple of one string
generate_section_id(element, index) == << "md5", element.tag, element.class, index >>

get_text_mut(element) == element.text + element.script
\* len(clean_text(element.get_text())): with the lxml builder the strings of
\* script and style elements are no text
get_text(element) == element.text

\* extract_text's loop `script.decompose()`: the element without its script
\* and style elements
decompose(element) == [element EXCEPT !.script = 0]

\* len(extract_text(element)), the element being already decomposed
extract_text(element) == get_text(element)

\* len(str(element)): the markup of the script and style elements and the rest
serialized(element) == element.html + element.script

\* truncate_html on the length of the markup: the length of the returned
\* string, and the flag
truncate_html(html) ==
    IF html <= max_length THEN [rawHtml |-> html, truncated |-> FALSE]
    ELSE [rawHtml |-> max_length + EllipsisLen, truncated |-> TRUE]

already_seen_mut(absolute, seen) == FALSE
\* `absolute_href in seen_hrefs`, `absolute_src in seen_srcs`
already_seen(absolute, seen) == absolute \in seen

RECURSIVE LinksFrom(_, _, _)
\* the loop of extract_links over the anchors that have an href, seen_hrefs
\* being seen
LinksFrom(a_tags, seen_hrefs, base_url) ==
    IF a_tags = << >> THEN << >>
    ELSE LET a_tag == Head(a_tags)
             absolute_href == normalize_url(base_url, a_tag.href)
         IN  IF \/ absolute_href = << >>
                \/ already_seen(absolute_href, seen_hrefs)
                \/ StartsWith(absolute_href, "#")
             THEN LinksFrom(Tail(a_tags), seen_hrefs, base_url)
             ELSE << [text |-> IF a_tag.text # << >> THEN a_tag.text ELSE absolute_href,
                      href |-> absolute_href] >>
                  \o LinksFrom(Tail(a_tags), seen_hrefs \cup {absolute_href}, base_url)

\* element.find_all('a', href=True) is the anchors with an href attribute
extract_links(element, base_url) ==
    LinksFrom(SelectSeq(element.anchors, LAMBDA t : t.has_href), {}, base_url)

RECURSIVE ImagesFrom(_, _, _)
\* the loop of extract_images over the images that have a src
ImagesFrom(img_tags, seen_srcs, base_url) ==
    IF img_tags = << >> THEN << >>
    ELSE LET img_tag == Head(img_tags)
             absolute_src == normalize_url(base_url, img_tag.src)
         IN  IF absolute_src = << >> \/ already_seen(absolute_src, seen_srcs)
             THEN ImagesFrom(Tail(img_tags), seen_srcs, base_url)
             ELSE << [src |-> absolute_src, alt |-> img_tag.alt] >>
                  \o ImagesFrom(Tail(img_tags), seen_srcs \cup {absolute_src}, base_url)

extract_images(element, base_url) ==
    ImagesFrom(SelectSeq(element.imgs, LAMBDA t : t.has_src), {}, base_url)

IsLandmark_mut(soup, e) ==
    IF \E i \in 1..Len(soup.children) : soup.children[i].tag \in SemanticTags
    THEN e.tag \in SemanticTags
    ELSE soup.has_body /\ e.text > MinDivText

\* whether detect_sections takes the element as a landmark: a semantic element
\* if the tree has one, else a div child of body with more than 50 characters
IsLandmark(soup, e) ==
    IF \E i \in 1..Len(soup.children) : soup.children[i].tag \in SemanticTags
    THEN e.tag \in SemanticTags
    ELSE soup.has_body /\ e.tag = "div" /\ get_text(e) > MinDivText

\* soup.find_all([...]) and, when it finds nothing, the div children of body
Landmarks(soup) == SelectSeq(soup.children, LAMBDA e : IsLandmark(soup, e))

too_short_mut(text) == text = 0 \/ text <= MinSectionText
\* `if not text or len(text) < 10`
too_short(text) == text = 0 \/ text < MinSectionText

RECURSIVE SectionsFrom(_, _, _)
\* the loop `for index, element in enumerate(landmarks)` from index on
SectionsFrom(landmarks, index, base_url) ==
    IF landmarks = << >> THEN << >>
    ELSE LET element == decompose(Head(landmarks))
             text == extract_text(element)
             rest == SectionsFrom(Tail(landmarks), index + 1, base_url)
             cut == truncate_html(serialized(element))
         IN  IF too_short(text) THEN rest
             ELSE << [id |-> generate_section_id(element, index),
                      type |-> classify_section_type(element),
                      sourceUrl |-> base_url,
                      content |-> [text |-> text,
                                   links |-> extract_links(element, base_url),
                                   images |-> extract_images(element, base_url)],
                      rawHtml |-> cut.rawHtml,
                      truncated |-> cut.truncated] >> \o rest

detect_sections(soup, base_url) == SectionsFrom(Landmarks(soup), 0, base_url)

\* the tree detect_sections leaves behind: extract_text has removed the script
\* and style elements of every landmark
after_detect_sections(soup) ==
    [soup EXCEPT !.children =
        [i \in 1..Len(soup.children) |->
            IF IsLandmark(soup, soup.children[i])
            THEN decompose(soup.children[i]) ELSE soup.children[i]]]

\* a head is what the four lookups of extract_meta find: None for a missing
\* tag or attribute, else the (cleaned) value
extract_meta(head) ==
    [title |-> IF head.title # None THEN head.title ELSE "",
     description |-> IF head.description # None /\ head.description # ""
                     THEN head.description ELSE "",
     language |-> IF head.lang # None /\ head.lang # "" THEN head.lang ELSE "",
     canonical |-> IF head.canonical # None /\ head.canonical # ""
                   THEN head.canonical ELSE None]

\* StaticScraper._empty_meta and JavaScriptScraper._empty_meta
empty_meta == [title |-> "", description |-> "", language |-> "", canonical |-> None]

-----------------------------------------------------------------------------
(* The pages the environment may serve *)

Elt(tag, class, id, text, script, lists, html) ==
    [tag |-> tag, class |-> class, id |-> id, text |-> text, script |-> script,
     lists |-> lists, html |-> html, anchors |-> << >>, imgs |-> << >>]

E_div5 == Elt("div", << >>, << >>, 5, 0, 0, 16)
E_div45 == Elt("div", <<"b","o","x">>, << >>, 45, 10, 0, 68)
E_div50 == Elt("div", <<"r","o","w">>, << >>, 50, 0, 0, 70)
E_div51 == Elt("div", <<"c","o","l">>, << >>, 51, 0, 0, 71)
E_div60 == Elt("div", <<"b","o","x">>, << >>, 60, 10, 0, 83)
E_p60 == Elt("p", << >>, << >>, 60, 0, 0, 67)
E_sec80 == Elt("section", <<"H","e","r","o">>, << >>, 80, 0, 0, 110)
E_sec250 == Elt("section", << >>, <<"p","l","a","n","s">>, 250, 0, 0, 480)
E_nav40 == Elt("nav", <<"m","e","n","u">>, << >>, 40, 0, 1, 500)
E_main600 == Elt("main", << >>, << >>, 600, 30, 2, 900)
E_foot8 == Elt("footer", << >>, << >>, 8, 0, 0, 501)
E_art10 == Elt("article", << >>, << >>, 10, 25, 0, 40)

NoHead == [title |-> None, description |-> None, lang |-> None, canonical |-> None]
FullHead == [title |-> "Title", description |-> "About", lang |-> "en",
             canonical |-> ""]

PgNoBody == [html |-> << >>, head |-> NoHead, soup |-> [has_body |-> FALSE, children |-> << >>]]
PgTiny == [html |-> <<"<","d","i","v",">">>, head |-> NoHead,
           soup |-> [has_body |-> TRUE, children |-> << E_div5 >>]]
PgDiv == [html |-> <<"<","d","i","v",">">>, head |-> FullHead,
          soup |-> [has_body |-> TRUE, children |-> << E_div45, E_div60 >>]]
PgSmallFw == [html |-> <<"R","e","a","c","t">>, head |-> FullHead,
              soup |-> [has_body |-> TRUE, children |-> << E_sec80 >>]]
PgMid == [html |-> <<"v","i","e","w">>, head |-> FullHead,
          soup |-> [has_body |-> TRUE, children |-> << E_sec250 >>]]
PgMidFw == [html |-> <<"_","_","N","E","X","T">>, head |-> FullHead,
            soup |-> [has_body |-> TRUE, children |-> << E_sec250 >>]]
PgRich == [html |-> <<"<","n","a","v",">">>, head |-> FullHead,
           soup |-> [has_body |-> TRUE, children |-> << E_nav40, E_main600, E_foot8 >>]]
PgRichFw == [html |-> <<"x","V","u","e","x">>, head |-> FullHead,
             soup |-> [has_body |-> TRUE, children |-> << E_main600 >>]]

StaticPages == {PgNoBody, PgTiny, PgDiv, PgSmallFw, PgMid, PgMidFw, PgRich, PgRichFw}
RenderedPages == {PgTiny, PgSmallFw, PgRich}

SeedUrl == << "https:", "//", "seed.example", "/" >>
NextUrls == { << "https:", "//", "seed.example", "/", "page", "/", "2" >> }
Statuses == {200, 404, 503}

-----------------------------------------------------------------------------
(* Selector lists of js_scraper.py, and the selectors that match something  *)
(* on the pages considered (the others find nothing)                        *)

tab_selectors ==
    << "[role=tab]", ".tab:not(.active)", "[data-tab]", "button[aria-selected=false]" >>

load_more_selectors ==
    << "button:has-text(Load more)", "button:has-text(Show more)",
       "a:has-text(Load more)", "a:has-text(Show more)",
       "[class*=load-more]", "[class*=show-more]" >>

pagination_selectors ==
    << "a[aria-label*=Next]", "a:has-text(Next)", "a:has-text(->)",
       "[class*=next]", "[rel=next]" >>

TabsPresent == {2}
LoadMorePresent == {1, 5}
NextPresent == {2, 5}

-----------------------------------------------------------------------------
(* Records of the result *)

Err(message, phase) == [message |-> message, phase |-> phase]

Append1(s, e) == s \o << e >>

\* Interactions() of models.py
DefaultInteractions == [clicks |-> << >>, scrolls |-> 0, pages |-> << >>]

\* MetaData() of models.py
DefaultMeta == [title |-> "", description |-> "", language |-> "", canonical |-> None]

\* the three identical dicts returned after a failed fetch
static_fetch_failed(err) ==
    [meta |-> empty_meta, sections |-> << >>, needs_js_fallback |-> FALSE,
     errors |-> << err >>]

\* the dict returned when parsing succeeds (raw_html, which nothing reads, is
\* left out)
static_parsed(pg, base_url) ==
    LET secs == detect_sections(pg.soup, base_url)
    IN  [meta |-> extract_meta(pg.head), sections |-> secs,
         needs_js_fallback |-> should_fallback_to_js(secs, pg.html),
         errors |-> << >>]

static_parse_failed_mut ==
    [meta |-> empty_meta, sections |-> << >>, needs_js_fallback |-> FALSE,
     errors |-> << Err(<< "Failed to parse HTML" >>, "parse") >>]

\* the dict returned when parsing raises
static_parse_failed ==
    [meta |-> empty_meta, sections |-> << >>, needs_js_fallback |-> TRUE,
     errors |-> << Err(<< "Failed to parse HTML" >>, "parse") >>]

browser_error_mut == Err(<< "Browser error" >>, "browser")
\* the error recorded by the outer `except Exception` of JavaScriptScraper.scrape
browser_error == Err(<< "Browser error" >>, "render")

js_failed_mut(interactions_, errors_) ==
    [meta |-> empty_meta, sections |-> << >>,
     interactions |-> [clicks |-> << >>, scrolls |-> 0, pages |-> << >>],
     errors |-> errors_]

\* the dict of the `except Exception` handlers of JavaScriptScraper.scrape
js_failed(interactions_, errors_) ==
    [meta |-> empty_meta, sections |-> << >>, interactions |-> interactions_,
     errors |-> errors_]

error_result_mut(errors_) ==
    [meta |-> empty_meta, sections |-> << >>,
     interactions |-> [clicks |-> << >>, scrolls |-> 0, pages |-> << >>],
     errors |-> << >>]

\* the dict _error_result returns
error_result(errors_) ==
    [meta |-> empty_meta, sections |-> << >>,
     interactions |-> [clicks |-> << >>, scrolls |-> 0, pages |-> << >>],
     errors |-> errors_]

_create_fallback_section(base_url) ==
    << [id |-> << "fallback-0" >>, type |-> "unknown", sourceUrl |-> base_url,
        content |-> [text |-> 45, links |-> << >>, images |-> << >>],
        rawHtml |-> FallbackRawHtmlLen, truncated |-> FALSE] >>

extend_mut(list, more) == more
\* list.extend(more)
extend(list, more) == list \o more

NoSectionsError == Err(<< "No sections detected in page" >>, "parse")

\* Step 3 of _scrape_internal: the sections and errors handed to
\* _format_response
ensured_skip(secs, errs, base_url) == [sections |-> secs, errors |-> errs]

ensured_mut(secs, errs, base_url) ==
    IF secs = << >>
    THEN [sections |-> _create_fallback_section(base_url), errors |-> errs]
    ELSE [sections |-> secs, errors |-> errs]

ensured(secs, errs, base_url) ==
    IF secs = << >>
    THEN [sections |-> _create_fallback_section(base_url),
          errors |-> Append1(errs, NoSectionsError)]
    ELSE [sections |-> secs, errors |-> errs]

\* ScrapeResponse(result=ScrapeResult(...)); scrapedAt, a timestamp, is left out
_format_response(base_url, meta_, secs, interactions_, errs) ==
    [status |-> 200,
     result |-> [url |-> base_url, meta |-> meta_, sections |-> secs,
                 interactions |-> [clicks |-> interactions_.clicks,
                                   scrolls |-> interactions_.scrolls,
                                   pages |-> interactions_.pages],
                 errors |-> errs]]

\* the response built in `except asyncio.TimeoutError`
timeout_response(base_url) ==
    [status |-> 200,
     result |-> [url |-> base_url, meta |-> DefaultMeta, sections |-> << >>,
                 interactions |-> DefaultInteractions,
                 errors |-> << Err(<< "Total scrape timeout after", total_timeout,
                                     "seconds" >>, "fetch") >>]]

\* the JSONResponse of scrape_url's `except Exception`
internal_error_response(base_url) ==
    [status |-> 500,
     result |-> [url |-> base_url, meta |-> empty_meta, sections |-> << >>,
                 interactions |-> [clicks |-> << >>, scrolls |-> 0, pages |-> << >>],
                 errors |-> << Err(<< "Internal error" >>, "fetch") >>]]

-----------------------------------------------------------------------------
(* State *)

timerVars == << deadline, cancelledAt >>
orchVars == << static_result, all_errors, js_result, meta, sections, interactions >>
jsVars == << errors, log, browser, browserOpen, pending >>
loopVars == << sel, tabs, idx, depth, clicked, phases >>
policyVars == << p_sections, p_html, p_result >>
extractVars == << x_snapshot, x_soup, x_runs >>
linkVars == << l_element, l_base, l_result >>
classifyVars == << c_element, c_result >>
pureVars == << policyVars, extractVars, linkVars, classifyVars >>
pipelineVars == << pc, timerVars, url, page, orchVars, response, jsVars, loopVars,
                   faults, next_clicks >>

PipelineIdle ==
    /\ pc = "idle"
    /\ deadline = "unset"
    /\ cancelledAt = "none"
    /\ url = SeedUrl
    /\ page = None
    /\ static_result = None
    /\ all_errors = << >>
    /\ js_result = None
    /\ meta = None
    /\ sections = None
    /\ interactions = None
    /\ response = None
    /\ errors = << >>
    /\ log = None
    /\ browser = None
    /\ browserOpen = FALSE
    /\ pending = None
    /\ sel = 0
    /\ tabs = 0
    /\ idx = 0
    /\ depth = 0
    /\ clicked = FALSE
    /\ phases = << >>
    /\ faults = {}
    /\ next_clicks = 0

PolicyIdle ==
    /\ p_sections = << >>
    /\ p_html = << >>
    /\ p_result = << >>

ExtractIdle ==
    /\ x_snapshot = [has_body |-> FALSE, children |-> << >>]
    /\ x_soup = x_snapshot
    /\ x_runs = << >>

LinksIdle ==
    /\ l_element = E_div5
    /\ l_base = SeedUrl
    /\ l_result = << >>

ClassifyIdle ==
    /\ c_element = E_div5
    /\ c_result = << >>

Init == PipelineIdle /\ PolicyIdle /\ ExtractIdle /\ LinksIdle /\ ClassifyIdle

\* The global deadline expires while the task is suspended at an await:
\* wait_for cancels the task once, and CancelledError is thrown at that await.
Cancelled(kind) ==
    /\ deadline = "armed"
    /\ deadline' = "fired"
    /\ cancelledAt' = kind

\* CancelledError leaves _scrape_internal: wait_for raises TimeoutError and
\* scrape returns the timeout response.
\* a call on an external collaborator raises
Raised(call) == faults' = faults \cup {call}

TimedOut ==
    /\ pc' = "returned_timeout"
    /\ response' = timeout_response(url)

\* An exception other than TimeoutError leaves scrape: scrape_url's
\* `except Exception` answers 500.
Faulted ==
    /\ pc' = "returned_500"
    /\ response' = internal_error_response(url)

-----------------------------------------------------------------------------
(* main.py and scraper.py: the request and the static pass *)

\* scrape_url calls scraper.scrape, which arms wait_for's timer and starts
\* _scrape_internal: all_errors = [] and the static fetch is awaited.
scrape_url ==
    /\ pc = "idle"
    /\ pc' = "static_get"
    /\ deadline' = "armed"
    /\ all_errors' = << >>
    /\ UNCHANGED << cancelledAt, url, page, static_result, js_result, meta, sections,
                    interactions, response, jsVars, loopVars, pureVars, next_clicks, faults >>

\* `await client.get(...)`, raise_for_status, and the three except clauses
StaticGet ==
    /\ pc = "static_get"
    /\ \/ /\ \E pg \in StaticPages : page' = pg
          /\ pc' = "static_parse"
          /\ UNCHANGED << timerVars, static_result, response, faults >>
       \/ /\ static_result' =
                static_fetch_failed(Err(<< "Request timeout after", static_timeout,
                                           "seconds" >>, "fetch"))
          /\ Raised("fetch_timeout")
          /\ pc' = "merge_static"
          /\ UNCHANGED << timerVars, page, response >>
       \/ /\ \E st \in Statuses :
                /\ ~(200 <= st /\ st < 300)
                /\ static_result' = static_fetch_failed(Err(<< "HTTP error", st >>, "fetch"))
          /\ Raised("http_status")
          /\ pc' = "merge_static"
          /\ UNCHANGED << timerVars, page, response >>
       \/ /\ static_result' = static_fetch_failed(Err(<< "Failed to fetch URL" >>, "fetch"))
          /\ Raised("transport")
          /\ pc' = "merge_static"
          /\ UNCHANGED << timerVars, page, response >>
       \/ /\ Cancelled("fetch")
          /\ TimedOut
          /\ UNCHANGED << page, static_result, faults >>
    /\ UNCHANGED << url, all_errors, js_result, meta, sections, interactions,
                    jsVars, loopVars, pureVars, next_clicks >>

\* BeautifulSoup, extract_meta, detect_sections, should_fallback_to_js
StaticParse ==
    /\ pc = "static_parse"
    /\ \/ /\ static_result' = static_parsed(page, url)
          /\ UNCHANGED faults
       \/ /\ static_result' = static_parse_failed
          /\ Raised("static_parse")
    /\ page' = None
    /\ pc' = "merge_static"
    /\ UNCHANGED << timerVars, url, all_errors, js_result, meta, sections, interactions,
                    response, jsVars, loopVars, pureVars, next_clicks >>

needs_js_mut(result) == TRUE
\* `needs_js = static_result.get('needs_js_fallback', False)`
needs_js(result) == result.needs_js_fallback

\* _scrape_internal, Steps 1 and 2: the static errors are kept, and either the
\* dynamic pass is started (its errors and interactions initialised) or the
\* static results are used
MergeStatic ==
    /\ pc = "merge_static"
    /\ all_errors' = extend(all_errors, static_result.errors)
    /\ \/ /\ needs_js(static_result)
          /\ pc' = "pw_start"
          /\ errors' = << >>
          /\ log' = [clicks |-> << >>, scrolls |-> 0, pages |-> << url >>]
          /\ UNCHANGED << meta, sections, interactions >>
       \/ /\ ~needs_js(static_result)
          /\ pc' = "assemble"
          /\ meta' = static_result.meta
          /\ sections' = static_result.sections
          /\ interactions' = [clicks |-> << >>, scrolls |-> 0, pages |-> << url >>]
          /\ UNCHANGED << errors, log >>
    /\ UNCHANGED << timerVars, url, page, static_result, js_result, response,
                    browser, browserOpen, pending, loopVars, pureVars, next_clicks, faults >>

\* _scrape_internal, after the dynamic pass returned: its errors are appended
\* and its results used
MergeJs ==
    /\ pc = "merge_js"
    /\ all_errors' = extend(all_errors, js_result.errors)
    /\ meta' = js_result.meta
    /\ sections' = js_result.sections
    /\ interactions' = js_result.interactions
    /\ pc' = "assemble"
    /\ UNCHANGED << timerVars, url, page, static_result, js_result, response,
                    jsVars, loopVars, pureVars, next_clicks, faults >>

\* _scrape_internal, Steps 3 and 4, and scrape's `return result`
Assemble ==
    /\ pc = "assemble"
    /\ LET e == ensured(sections, all_errors, url)
       IN  /\ sections' = e.sections
           /\ all_errors' = e.errors
           /\ response' = _format_response(url, meta, e.sections, interactions, e.errors)
    /\ pc' = "returned_result"
    /\ UNCHANGED << timerVars, url, page, static_result, js_result, meta, interactions,
                    jsVars, loopVars, pureVars, next_clicks, faults >>

-----------------------------------------------------------------------------
(* js_scraper.py: JavaScriptScraper.scrape outside the interaction phases *)

\* the `except Exception as e` of scrape (lines 83-93): a render error is
\* recorded and the dict with the interactions so far is returned through the
\* finally block
BrowserError ==
    /\ errors' = Append1(errors, browser_error)
    /\ js_result' = js_failed(log, errors')
    /\ pending' = "return"
    /\ pc' = "finally"

\* CancelledError is no Exception: it passes every `except Exception` and
\* reaches the finally block
CancelToFinally(kind) ==
    /\ Cancelled(kind)
    /\ pending' = "cancel"
    /\ pc' = "finally"

\* _perform_interactions is entered: _click_tabs starts with its first selector
StartTabs ==
    /\ phases' = << "tabs" >>
    /\ pc' = "tabs_query"
    /\ sel' = 1
    /\ tabs' = 0
    /\ idx' = 0
    /\ depth' = 0
    /\ clicked' = FALSE

\* `async with async_playwright() as p`, outside every try
PwStart ==
    /\ pc = "pw_start"
    /\ \/ /\ pc' = "launch"
          /\ UNCHANGED << timerVars, response, faults >>
       \/ /\ Faulted
          /\ Raised("playwright_start")
          /\ UNCHANGED timerVars
       \/ /\ Cancelled("browser")
          /\ TimedOut
          /\ UNCHANGED faults
    /\ UNCHANGED << url, page, orchVars, jsVars, loopVars, pureVars, next_clicks >>

\* `browser = await p.chromium.launch(headless=True)`
Launch ==
    /\ pc = "launch"
    /\ \/ /\ browser' = "browser"
          /\ browserOpen' = TRUE
          /\ pc' = "new_page"
          /\ UNCHANGED << timerVars, js_result, errors, pending, faults >>
       \/ /\ BrowserError
          /\ Raised("launch")
          /\ UNCHANGED << timerVars, browser, browserOpen >>
       \/ /\ CancelToFinally("browser")
          /\ UNCHANGED << js_result, errors, browser, browserOpen, faults >>
    /\ UNCHANGED << url, page, static_result, all_errors, meta, sections, interactions,
                    response, log, loopVars, pureVars, next_clicks >>

\* `page = await browser.new_page()` and set_default_timeout
NewPage ==
    /\ pc = "new_page"
    /\ \/ /\ pc' = "goto"
          /\ UNCHANGED << timerVars, js_result, errors, pending, faults >>
       \/ /\ BrowserError
          /\ Raised("new_page")
          /\ UNCHANGED timerVars
       \/ /\ CancelToFinally("browser")
          /\ UNCHANGED << js_result, errors, faults >>
    /\ UNCHANGED << url, page, static_result, all_errors, meta, sections, interactions,
                    response, log, browser, browserOpen, loopVars, pureVars, next_clicks >>

\* `await page.goto(...)` with its two except clauses
Goto ==
    /\ pc = "goto"
    /\ \/ /\ StartTabs
          /\ UNCHANGED << timerVars, js_result, errors, pending, faults >>
       \/ /\ errors' = Append1(errors, Err(<< "Page load timeout" >>, "render"))
          /\ Raised("goto_timeout")
          /\ StartTabs
          /\ UNCHANGED << timerVars, js_result, pending >>
       \/ /\ errors' = Append1(errors, Err(<< "Failed to load page" >>, "render"))
          /\ Raised("goto")
          /\ pc' = "error_close"
          /\ UNCHANGED << timerVars, js_result, pending, loopVars >>
       \/ /\ CancelToFinally("browser")
          /\ UNCHANGED << js_result, errors, loopVars, faults >>
    /\ UNCHANGED << url, page, static_result, all_errors, meta, sections, interactions,
                    response, log, browser, browserOpen, pureVars, next_clicks >>

\* `if browser:` of _error_result
error_result_closes(b) == b # None

\* _error_result: the browser is closed and the dict with empty interactions
\* is returned through the finally block.  close() takes effect when called;
\* the deadline may expire while its completion is awaited.
ErrorClose ==
    /\ pc = "error_close"
    /\ browserOpen' = IF error_result_closes(browser) THEN FALSE ELSE browserOpen
    /\ \/ /\ js_result' = error_result(errors)
          /\ pending' = "return"
          /\ pc' = "finally"
          /\ UNCHANGED timerVars
       \/ /\ error_result_closes(browser)
          /\ CancelToFinally("browser")
          /\ UNCHANGED js_result
    /\ UNCHANGED << url, page, static_result, all_errors, meta, sections, interactions,
                    response, errors, log, browser, loopVars, pureVars, next_clicks, faults >>

\* `html = await page.content()`
Content ==
    /\ pc = "content"
    /\ \/ /\ \E pg \in RenderedPages : page' = pg
          /\ pc' = "js_parse"
          /\ UNCHANGED << timerVars, js_result, errors, pending, faults >>
       \/ /\ BrowserError
          /\ Raised("content")
          /\ UNCHANGED << timerVars, page >>
       \/ /\ CancelToFinally("browser")
          /\ UNCHANGED << js_result, errors, page, faults >>
    /\ UNCHANGED << url, static_result, all_errors, meta, sections, interactions,
                    response, log, browser, browserOpen, loopVars, pureVars, next_clicks >>

\* BeautifulSoup, extract_meta, detect_sections and the two return
\* statements of the inner try
JsParse ==
    /\ pc = "js_parse"
    /\ \/ /\ js_result' = [meta |-> extract_meta(page.head),
                           sections |-> detect_sections(page.soup, url),
                           interactions |-> log, errors |-> errors]
          /\ UNCHANGED << errors, faults >>
       \/ /\ errors' = Append1(errors, Err(<< "Failed to parse HTML" >>, "parse"))
          /\ Raised("js_parse")
          /\ js_result' = js_failed(log, errors')
    /\ page' = None
    /\ pending' = "return"
    /\ pc' = "finally"
    /\ UNCHANGED << timerVars, url, static_result, all_errors, meta, sections,
                    interactions, response, log, browser, browserOpen, loopVars,
                    pureVars, next_clicks >>

finally_closes_mut(b) == FALSE
\* `if browser:` of the finally block
finally_closes(b) == b # None

\* `finally: if browser: await browser.close()`
Finally ==
    /\ pc = "finally"
    /\ browserOpen' = IF finally_closes(browser) THEN FALSE ELSE browserOpen
    /\ pc' = "pw_exit"
    /\ \/ UNCHANGED << timerVars, pending >>
       \/ /\ finally_closes(browser)
          /\ Cancelled("browser")
          /\ pending' = "cancel"
    /\ UNCHANGED << url, page, orchVars, response, errors, log, browser, loopVars,
                    pureVars, next_clicks, faults >>

\* the exit of `async with async_playwright()`: the dict is returned to
\* _scrape_internal, or CancelledError goes on to wait_for
PwExit ==
    /\ pc = "pw_exit"
    /\ \/ /\ pending = "return"
          /\ pc' = "merge_js"
          /\ UNCHANGED << timerVars, response >>
       \/ /\ pending = "cancel"
          /\ TimedOut
          /\ UNCHANGED timerVars
       \/ /\ Cancelled("browser")
          /\ TimedOut
    /\ UNCHANGED << url, page, orchVars, jsVars, loopVars, pureVars, next_clicks, faults >>

-----------------------------------------------------------------------------
(* js_scraper.py: the four interaction phases.  Inside a bare `except:` a   *)
(* raised exception and CancelledError take the same path.                  *)

\* an await inside a bare `except:` raises, or is cancelled by the deadline
Swallowed(kind) ==
    \/ UNCHANGED timerVars
    \/ Cancelled(kind)

LogClick(entry) == log' = [log EXCEPT !.clicks = Append1(@, entry)]

\* _click_load_more starts: depth = 0, clicked = False, first selector
StartLoadMore ==
    /\ phases' = Append1(phases, "load_more")
    /\ pc' = "more_query"
    /\ sel' = 1
    /\ tabs' = 0
    /\ idx' = 0
    /\ depth' = 0
    /\ clicked' = FALSE

\* the next selector of tab_selectors, or the end of _click_tabs
NextTabSelector ==
    IF sel < Len(tab_selectors)
    THEN /\ pc' = "tabs_query"
         /\ sel' = sel + 1
         /\ tabs' = 0
         /\ idx' = 0
         /\ UNCHANGED << depth, clicked, phases >>
    ELSE StartLoadMore

\* the next element of tabs[:3], or the next selector
NextTab ==
    IF idx + 1 < tabs
    THEN /\ pc' = "tab_click"
         /\ idx' = idx + 1
         /\ UNCHANGED << sel, tabs, depth, clicked, phases >>
    ELSE NextTabSelector

Min(a, b) == IF a < b THEN a ELSE b

tabs_to_click_mut(n) == n
\* len(tabs[:3]) for a query that matched n elements
tabs_to_click(n) == Min(n, TabLimit)

\* `tabs = await page.query_selector_all(selector)`, on a page where the
\* selectors of present match something, at most most elements each
TabsQueryOn(present, most) ==
    /\ pc = "tabs_query"
    /\ \/ /\ sel \in present
          /\ \E n \in 1..most :
                /\ tabs' = tabs_to_click(n)
                /\ idx' = 0
                /\ pc' = "tab_click"
          /\ UNCHANGED << timerVars, sel, depth, clicked, phases >>
       \/ /\ NextTabSelector
          /\ UNCHANGED timerVars
       \/ /\ NextTabSelector
          /\ Cancelled("query")
    /\ UNCHANGED << url, page, orchVars, response, jsVars, pureVars, next_clicks, faults >>

TabsQuery == TabsQueryOn(TabsPresent, MaxMatches)

\* `await tab.click(timeout=...)` and the append to clicks
TabClick ==
    /\ pc = "tab_click"
    /\ \/ /\ LogClick(<< "Tab", tab_selectors[sel], idx >>)
          /\ pc' = "tab_sleep"
          /\ UNCHANGED << timerVars, loopVars >>
       \/ /\ NextTab
          /\ UNCHANGED << timerVars, log >>
       \/ /\ NextTab
          /\ Cancelled("click")
          /\ UNCHANGED log
    /\ UNCHANGED << url, page, orchVars, response, errors, browser, browserOpen,
                    pending, pureVars, next_clicks, faults >>

\* `await asyncio.sleep(0.5)` after a tab click
TabSleep ==
    /\ pc = "tab_sleep"
    /\ NextTab
    /\ Swallowed("wait")
    /\ UNCHANGED << url, page, orchVars, response, jsVars, pureVars, next_clicks, faults >>

\* the next selector of load_more_selectors, or `if not clicked` after the
\* last one
NextMoreSelector ==
    IF sel < Len(load_more_selectors)
    THEN /\ pc' = "more_query"
         /\ sel' = sel + 1
         /\ UNCHANGED << tabs, idx, depth, clicked, phases >>
    ELSE /\ pc' = "more_check"
         /\ UNCHANGED loopVars

\* `button = await page.query_selector(selector)`
MoreQuery ==
    /\ pc = "more_query"
    /\ \/ /\ sel \in LoadMorePresent
          /\ pc' = "more_visible"
          /\ UNCHANGED << timerVars, loopVars >>
       \/ /\ NextMoreSelector
          /\ UNCHANGED timerVars
       \/ /\ NextMoreSelector
          /\ Cancelled("query")
    /\ UNCHANGED << url, page, orchVars, response, jsVars, pureVars, next_clicks, faults >>

\* `await button.is_visible()`
MoreVisible ==
    /\ pc = "more_visible"
    /\ \/ /\ pc' = "more_click"
          /\ UNCHANGED << timerVars, loopVars >>
       \/ /\ NextMoreSelector
          /\ UNCHANGED timerVars
       \/ /\ NextMoreSelector
          /\ Cancelled("query")
    /\ UNCHANGED << url, page, orchVars, response, jsVars, pureVars, next_clicks, faults >>

\* `await button.click(timeout=...)` and the append to clicks
MoreClick ==
    /\ pc = "more_click"
    /\ \/ /\ LogClick(<< "Load More", load_more_selectors[sel] >>)
          /\ pc' = "more_sleep"
          /\ UNCHANGED << timerVars, loopVars >>
       \/ /\ NextMoreSelector
          /\ UNCHANGED << timerVars, log >>
       \/ /\ NextMoreSelector
          /\ Cancelled("click")
          /\ UNCHANGED log
    /\ UNCHANGED << url, page, orchVars, response, errors, browser, browserOpen,
                    pending, pureVars, next_clicks, faults >>

\* `await asyncio.sleep(1)`, then `clicked = True; break`
MoreSleep ==
    /\ pc = "more_sleep"
    /\ \/ /\ clicked' = TRUE
          /\ pc' = "more_check"
          /\ UNCHANGED << timerVars, sel, tabs, idx, depth, phases >>
       \/ /\ NextMoreSelector
          /\ Cancelled("wait")
    /\ UNCHANGED << url, page, orchVars, response, jsVars, pureVars, next_clicks, faults >>

\* _infinite_scroll starts
StartScroll ==
    /\ phases' = Append1(phases, "scroll")
    /\ pc' = "scroll_height"
    /\ sel' = 0
    /\ tabs' = 0
    /\ idx' = 0
    /\ depth' = 0
    /\ clicked' = FALSE

\* `if not clicked: break`, and the next value of range(self.max_depth)
MoreCheck ==
    /\ pc = "more_check"
    /\ IF clicked /\ depth + 1 < max_depth
       THEN /\ pc' = "more_query"
            /\ depth' = depth + 1
            /\ clicked' = FALSE
            /\ sel' = 1
            /\ UNCHANGED << tabs, idx, phases >>
       ELSE StartScroll
    /\ UNCHANGED << timerVars, url, page, orchVars, response, jsVars, pureVars,
                    next_clicks, faults >>

\* _follow_pagination starts
StartPagination ==
    /\ phases' = Append1(phases, "pagination")
    /\ pc' = "next_query"
    /\ sel' = 1
    /\ tabs' = 0
    /\ idx' = 0
    /\ depth' = 0
    /\ clicked' = FALSE

scroll_failed_mut ==
    /\ pc' = "content"
    /\ sel' = 0
    /\ tabs' = 0
    /\ idx' = 0
    /\ depth' = 0
    /\ clicked' = FALSE
    /\ UNCHANGED phases

\* `except Exception as e: pass` of _infinite_scroll: the phase ends and
\* _perform_interactions goes on with _follow_pagination
scroll_failed == StartPagination

NextScroll_mut ==
    IF depth + 1 <= max_depth
    THEN /\ pc' = "scroll_height"
         /\ depth' = depth + 1
         /\ UNCHANGED << sel, tabs, idx, clicked, phases >>
    ELSE StartPagination

\* the next value of range(self.max_depth) in _infinite_scroll, or its end
NextScroll ==
    IF depth + 1 < max_depth
    THEN /\ pc' = "scroll_height"
         /\ depth' = depth + 1
         /\ UNCHANGED << sel, tabs, idx, clicked, phases >>
    ELSE StartPagination

silently_fail_mut(errs) == Append1(errs, Err(<< "Interaction error" >>, "render"))
\* `except Exception as e: pass  # Silently fail`: what the handler of a phase
\* makes of the errors list
silently_fail(errs) == errs

\* `prev_height = await page.evaluate('document.body.scrollHeight')`: under
\* `except Exception` only
ScrollHeight ==
    /\ pc = "scroll_height"
    /\ \/ /\ pc' = "scroll_to"
          /\ UNCHANGED << timerVars, loopVars, pending, errors >>
       \/ /\ scroll_failed
          /\ errors' = silently_fail(errors)
          /\ UNCHANGED << timerVars, pending >>
       \/ /\ CancelToFinally("evaluate")
          /\ UNCHANGED << loopVars, errors >>
    /\ UNCHANGED << url, page, orchVars, response, log, browser, browserOpen,
                    pureVars, next_clicks, faults >>

\* `await page.evaluate('window.scrollTo(...)')` and `scrolls += 1`
ScrollTo ==
    /\ pc = "scroll_to"
    /\ \/ /\ log' = [log EXCEPT !.scrolls = @ + 1]
          /\ pc' = "scroll_sleep"
          /\ UNCHANGED << timerVars, loopVars, pending, errors >>
       \/ /\ scroll_failed
          /\ errors' = silently_fail(errors)
          /\ UNCHANGED << timerVars, pending, log >>
       \/ /\ CancelToFinally("evaluate")
          /\ UNCHANGED << loopVars, log, errors >>
    /\ UNCHANGED << url, page, orchVars, response, browser, browserOpen,
                    pureVars, next_clicks, faults >>

\* `await asyncio.sleep(1)` inside the bare except of _infinite_scroll
ScrollSleep ==
    /\ pc = "scroll_sleep"
    /\ \/ /\ pc' = "scroll_wait"
          /\ UNCHANGED << timerVars, loopVars >>
       \/ /\ StartPagination
          /\ Cancelled("wait")
    /\ UNCHANGED << url, page, orchVars, response, jsVars, pureVars, next_clicks, faults >>

\* `await page.wait_for_function(...)`: the height grew, or `except: break`
ScrollWait ==
    /\ pc = "scroll_wait"
    /\ \/ /\ NextScroll
          /\ UNCHANGED timerVars
       \/ /\ StartPagination
          /\ UNCHANGED timerVars
       \/ /\ StartPagination
          /\ Cancelled("wait")
    /\ UNCHANGED << url, page, orchVars, response, jsVars, pureVars, next_clicks, faults >>

\* the next selector of pagination_selectors, or `if not clicked` after the
\* last one
NextNextSelector ==
    IF sel < Len(pagination_selectors)
    THEN /\ pc' = "next_query"
         /\ sel' = sel + 1
         /\ UNCHANGED << tabs, idx, depth, clicked, phases >>
    ELSE /\ pc' = "next_check"
         /\ UNCHANGED loopVars

\* `link = await page.query_selector(selector)`
NextQuery ==
    /\ pc = "next_query"
    /\ \/ /\ sel \in NextPresent
          /\ pc' = "next_visible"
          /\ UNCHANGED << timerVars, loopVars >>
       \/ /\ NextNextSelector
          /\ UNCHANGED timerVars
       \/ /\ NextNextSelector
          /\ Cancelled("query")
    /\ UNCHANGED << url, page, orchVars, response, jsVars, pureVars, next_clicks, faults >>

\* `await link.is_visible()`
NextVisible ==
    /\ pc = "next_visible"
    /\ \/ /\ pc' = "next_href"
          /\ UNCHANGED << timerVars, loopVars >>
       \/ /\ NextNextSelector
          /\ UNCHANGED timerVars
       \/ /\ NextNextSelector
          /\ Cancelled("query")
    /\ UNCHANGED << url, page, orchVars, response, jsVars, pureVars, next_clicks, faults >>

\* `href = await link.get_attribute('href')`
NextHref ==
    /\ pc = "next_href"
    /\ \/ /\ pc' = "next_click"
          /\ UNCHANGED << timerVars, loopVars >>
       \/ /\ NextNextSelector
          /\ UNCHANGED timerVars
       \/ /\ NextNextSelector
          /\ Cancelled("query")
    /\ UNCHANGED << url, page, orchVars, response, jsVars, pureVars, next_clicks, faults >>

\* `await link.click(timeout=...)`
NextClick ==
    /\ pc = "next_click"
    /\ \/ /\ pc' = "next_load"
          /\ next_clicks' = next_clicks + 1
          /\ UNCHANGED << timerVars, loopVars >>
       \/ /\ NextNextSelector
          /\ UNCHANGED << timerVars, next_clicks >>
       \/ /\ NextNextSelector
          /\ Cancelled("click")
          /\ UNCHANGED next_clicks
    /\ UNCHANGED << url, page, orchVars, response, jsVars, pureVars, faults >>

\* `await page.wait_for_load_state('networkidle', ...)`, then the append of
\* page.url to pages and `clicked = True; break`
NextLoad ==
    /\ pc = "next_load"
    /\ \/ /\ \E current_url \in NextUrls :
                log' = [log EXCEPT !.pages = Append1(@, current_url)]
          /\ clicked' = TRUE
          /\ pc' = "next_check"
          /\ UNCHANGED << timerVars, sel, tabs, idx, depth, phases >>
       \/ /\ NextNextSelector
          /\ UNCHANGED << timerVars, log >>
       \/ /\ NextNextSelector
          /\ Cancelled("wait")
          /\ UNCHANGED log
    /\ UNCHANGED << url, page, orchVars, response, errors, browser, browserOpen,
                    pending, pureVars, next_clicks, faults >>

\* `if not clicked: break`, the next value of range(self.max_depth - 1), and
\* the return of _perform_interactions to `await page.content()`
NextCheck ==
    /\ pc = "next_check"
    /\ IF clicked /\ depth + 1 < max_depth - 1
       THEN /\ pc' = "next_query"
            /\ depth' = depth + 1
            /\ clicked' = FALSE
            /\ sel' = 1
            /\ UNCHANGED << tabs, idx, phases >>
       ELSE /\ pc' = "content"
            /\ UNCHANGED phases
            /\ sel' = 0
            /\ tabs' = 0
            /\ idx' = 0
            /\ depth' = 0
            /\ clicked' = FALSE
    /\ UNCHANGED << timerVars, url, page, orchVars, response, jsVars, pureVars,
                    next_clicks, faults >>

-----------------------------------------------------------------------------
(* Specification of one request *)

Next ==
    \/ scrape_url \/ StaticGet \/ StaticParse \/ MergeStatic \/ MergeJs \/ Assemble
    \/ PwStart \/ Launch \/ NewPage \/ Goto \/ ErrorClose \/ Content \/ JsParse
    \/ Finally \/ PwExit
    \/ TabsQuery \/ TabClick \/ TabSleep
    \/ MoreQuery \/ MoreVisible \/ MoreClick \/ MoreSleep \/ MoreCheck
    \/ ScrollHeight \/ ScrollTo \/ ScrollSleep \/ ScrollWait
    \/ NextQuery \/ NextVisible \/ NextHref \/ NextClick \/ NextLoad \/ NextCheck

Spec == Init /\ [][Next]_vars

-----------------------------------------------------------------------------
(* Specification of the tab phase alone: _click_tabs from its first query   *)
(* on, on a page where each of the four selectors may match up to           *)
(* TabMatches elements.  It starts in the state in which Goto leaves a      *)
(* request whose static pass found the page of PgTiny.                      *)

InitTabs ==
    /\ pc = "tabs_query"
    /\ deadline = "armed"
    /\ cancelledAt = "none"
    /\ url = SeedUrl
    /\ page = None
    /\ static_result = static_parsed(PgTiny, SeedUrl)
    /\ all_errors = << >>
    /\ js_result = None
    /\ meta = None
    /\ sections = None
    /\ interactions = None
    /\ response = None
    /\ errors = << >>
    /\ log = [clicks |-> << >>, scrolls |-> 0, pages |-> << SeedUrl >>]
    /\ browser = "browser"
    /\ browserOpen = TRUE
    /\ pending = None
    /\ sel = 1
    /\ tabs = 0
    /\ idx = 0
    /\ depth = 0
    /\ clicked = FALSE
    /\ phases = << "tabs" >>
    /\ faults = {}
    /\ next_clicks = 0
    /\ PolicyIdle /\ ExtractIdle /\ LinksIdle /\ ClassifyIdle

TabsQueryAll == TabsQueryOn(1..Len(tab_selectors), TabMatches)

NextTabs == TabsQueryAll \/ TabClick \/ TabSleep

SpecTabs == InitTabs /\ [][NextTabs]_vars

-----------------------------------------------------------------------------
(* Specification of the fallback decision policy alone: should_fallback_to_js *)
(* applied to section lists and markup drawn from bounded sets                *)

PolicyTexts == {10, 49, 50, 80, 99, 100, 250, 400, 500, 501, 600}

PolicySections ==
    UNION { [1..n -> { [content |-> [text |-> t]] : t \in PolicyTexts }] :
            n \in 0..MaxSections }

PolicyWords ==
    { << >>, <<"d","i","v">>,
      <<"r","e","a","c","t">>, <<"R","e","a","c","t">>, <<"r","e","a","c">>,
      <<"v","u","e">>, <<"V","U","E">>, <<"v","u">>,
      <<"a","n","g","u","l","a","r">>, <<"A","n","g","u","l","a","r">>,
      <<"n","e","x","t",".","j","s">>, <<"N","e","x","t",".","J","S">>,
      <<"n","e","x","t">>,
      <<"_","_","n","e","x","t">>, <<"_","_","N","E","X","T">>,
      <<"n","u","x","t">>, <<"N","u","x","t">>, <<"n","u","x">> }

PolicyHtmls ==
    { pre \o w \o post : pre \in { << >>, <<"<">> }, w \in PolicyWords,
                         post \in { << >>, <<"s">> } }

InitPolicy ==
    /\ PipelineIdle
    /\ p_sections \in PolicySections
    /\ p_html \in PolicyHtmls
    /\ p_result = << >>
    /\ ExtractIdle /\ LinksIdle /\ ClassifyIdle

\* needs_js = should_fallback_to_js(sections, html)
PolicyApply ==
    /\ p_result = << >>
    /\ p_result' = << should_fallback_to_js(p_sections, p_html) >>
    /\ UNCHANGED << pipelineVars, p_sections, p_html, extractVars, linkVars,
                    classifyVars >>

NextPolicy == PolicyApply

SpecPolicy == InitPolicy /\ [][NextPolicy]_vars

-----------------------------------------------------------------------------
(* Specification of the structural extraction engine alone: detect_sections  *)
(* run twice on a tree drawn from a bounded set                              *)

ExtractElements ==
    {E_div5, E_div45, E_div50, E_div51, E_div60, E_p60, E_sec80, E_nav40, E_main600,
     E_foot8, E_art10}

ExtractSoups ==
    { [has_body |-> b, children |-> c] :
        b \in BOOLEAN,
        c \in UNION { [1..n -> ExtractElements] : n \in 0..MaxChildren } }

InitExtract ==
    /\ PipelineIdle /\ PolicyIdle /\ LinksIdle /\ ClassifyIdle
    /\ x_snapshot \in ExtractSoups
    /\ x_soup = x_snapshot
    /\ x_runs = << >>

\* sections = detect_sections(soup, url), on the tree as it is now
ExtractRun ==
    /\ Len(x_runs) < 2
    /\ x_runs' = Append1(x_runs, detect_sections(x_soup, SeedUrl))
    /\ x_soup' = after_detect_sections(x_soup)
    /\ UNCHANGED << pipelineVars, policyVars, x_snapshot, linkVars, classifyVars >>

NextExtract == ExtractRun

SpecExtract == InitExtract /\ [][NextExtract]_vars

-----------------------------------------------------------------------------
(* Specification of link and image extraction alone: extract_links and       *)
(* extract_images applied to an element whose anchors or images are drawn    *)
(* from a bounded set                                                        *)

A(href, text) == [has_href |-> TRUE, href |-> href, text |-> text]
Img(src, alt) == [has_src |-> TRUE, src |-> src, alt |-> alt]

LinkAnchors ==
    { A(<< "#", "top" >>, << "Top" >>),
      A(<< "#" >>, << >>),
      A(<< "a" >>, << "Docs" >>),
      A(<< "/", "a" >>, << "More" >>),
      A(<< "https:", "//", "seed.example", "/", "a" >>, << >>),
      A(<< "//", "seed.example", "/", "a" >>, << "Cdn" >>),
      A(<< "..", "/", "c" >>, << "Up" >>),
      A(<< >>, << "Empty" >>),
      [has_href |-> FALSE, href |-> << >>, text |-> << "Name" >>] }

LinkImages ==
    { Img(<< "i.png" >>, << "Logo" >>),
      Img(<< "/", "i.png" >>, << >>),
      Img(<< "//", "seed.example", "/", "i.png" >>, << "Cdn" >>),
      Img(<< "//", "cdn.example.com", "/", "x.png" >>, << "X" >>),
      Img(<< >>, << "Empty" >>),
      [has_src |-> FALSE, src |-> << >>, alt |-> << >>] }

ExampleBase == << "https:", "//", "example.com", "/", "a", "/", "b" >>
ExampleDir == << "https:", "//", "example.com", "/", "a", "/", "b", "/" >>

LinkBases ==
    { SeedUrl, << "http:", "//", "seed.example", "/", "docs", "/", "index" >>,
      ExampleBase, ExampleDir }

LinkElements ==
    { [E_sec80 EXCEPT !.anchors = a] :
        a \in UNION { [1..n -> LinkAnchors] : n \in 0..MaxAnchors } }
    \cup
    { [E_sec80 EXCEPT !.imgs = i] :
        i \in UNION { [1..n -> LinkImages] : n \in 1..MaxAnchors } }

InitLinks ==
    /\ PipelineIdle /\ PolicyIdle /\ ExtractIdle /\ ClassifyIdle
    /\ l_element \in LinkElements
    /\ l_base \in LinkBases
    /\ l_result = << >>

\* 'links': extract_links(element, base_url), 'images': extract_images(...)
LinksApply ==
    /\ l_result = << >>
    /\ l_result' = << [links |-> extract_links(l_element, l_base),
                       images |-> extract_images(l_element, l_base)] >>
    /\ UNCHANGED << pipelineVars, policyVars, extractVars, l_element, l_base,
                    classifyVars >>

NextLinks == LinksApply

SpecLinks == InitLinks /\ [][NextLinks]_vars

-----------------------------------------------------------------------------
(* Specification of classification alone: classify_section_type applied to  *)
(* an element whose tag, class list, id and lists are drawn from bounded     *)
(* sets                                                                      *)

ClassifyTags == {"nav", "footer", "header", "section", "div", "main"}

ClassifyClasses ==
    { << >>,
      << "H", "e", "r", "o" >>,
      << "t", "o", "p", " ", "b", "a", "n", "n", "e", "r" >>,
      << "p", "r", "i", "c", "i", "n", "g", "-", "t", "a", "b", "l", "e" >>,
      << "F", "A", "Q" >>,
      << "c", "a", "r", "d", "s" >>,
      << "p", "l", "a", "y", "l", "i", "s", "t" >>,
      << "e", "x", "p", "l", "a", "n", "a", "t", "i", "o", "n", " ", "f", "a", "q" >>,
      << "b", "o", "x" >> }

ClassifyIds ==
    { << >>,
      << "p", "l", "a", "n", "s" >>,
      << "a", "c", "c", "o", "r", "d", "i", "o", "n" >>,
      << "f", "e", "a", "t", "u", "r", "e", "s" >>,
      << "w", "i", "s", "h", "l", "i", "s", "t" >>,
      << "j", "u", "m", "b", "o", "t", "r", "o", "n" >> }

ClassifyElements ==
    { [E_sec80 EXCEPT !.tag = t, !.class = c, !.id = i, !.lists = n] :
        t \in ClassifyTags, c \in ClassifyClasses, i \in ClassifyIds, n \in 0..3 }

InitClassify ==
    /\ PipelineIdle /\ PolicyIdle /\ ExtractIdle /\ LinksIdle
    /\ c_element \in ClassifyElements
    /\ c_result = << >>

\* 'type': classify_section_type(element, first_heading)
ClassifyApply ==
    /\ c_result = << >>
    /\ c_result' = << classify_section_type(c_element) >>
    /\ UNCHANGED << pipelineVars, policyVars, extractVars, linkVars, c_element >>

NextClassify == ClassifyApply

SpecClassify == InitClassify /\ [][NextClassify]_vars

-----------------------------------------------------------------------------
(* Properties *)

ReturnedByScrape == {"returned_result", "returned_timeout"}
Returned == ReturnedByScrape \cup {"returned_500"}
AllPhases == << "tabs", "load_more", "scroll", "pagination" >>
ValidPhases == {"fetch", "render", "parse"}

\* the lower-cased markup contains one of the framework signatures
HasSignature(html) ==
    \E i \in 1..Len(js_frameworks) : Contains(js_frameworks[i], lower(html))

\* no error of the static pass is a fetch error: the markup was fetched
FetchOk ==
    \A i \in 1..Len(static_result.errors) : static_result.errors[i].phase # "fetch"

\* the dynamic pass was entered by _scrape_internal
DynamicRan == cancelledAt # "fetch" /\ static_result.needs_js_fallback

\* the section list chosen in Step 2 of _scrape_internal
Chosen == IF pending = "return" THEN js_result.sections ELSE static_result.sections

IsPlaceholder(secs) ==
    /\ Len(secs) = 1
    /\ secs[1].id = << "fallback-0" >>
    /\ secs[1].type = "unknown"

\* C1 as stated: every result returned by UniversalScraper.scrape, the
\* global-deadline result included, holds at least one section.
C1_Original ==
    pc \in ReturnedByScrape => Len(response.result.sections) >= 1

\* C1 amended: every result assembled by _scrape_internal (static path, dynamic
\* path, any fetch, render or parse failure) holds at least one section; the
\* global-deadline result holds none.
C1_SectionsNeverEmpty ==
    /\ pc = "returned_result" => Len(response.result.sections) >= 1
    /\ pc = "returned_timeout" => response.result.sections = << >>

\* C1 witness: the fetch failed, the static pass has no section, and the
\* result returned on the static path holds one section.
C1_Witness ==
    /\ pc = "returned_result"
    /\ pending = None
    /\ ~FetchOk
    /\ static_result.sections = << >>
    /\ Len(response.result.sections) = 1

\* C2: once the deadline has expired during a click or a wait of the
\* interaction phases, nothing more is clicked, scrolled or visited (the
\* interaction log no longer changes) and scrape returns the timeout result.
C2_DeadlinePreemptsAutomaton ==
    [][(cancelledAt \in {"click", "wait"}) =>
          (log' = log /\ (pc' \in ReturnedByScrape => response' = timeout_response(url)))]_vars

\* C3: when the deadline has expired before the sequence completed, the
\* returned result is the timeout result: no sections, default metadata, empty
\* interaction log, and the one fetch error that names the timeout.
C3_DeadlineGivesTimeoutResult ==
    (pc \in ReturnedByScrape /\ deadline = "fired") =>
        /\ response = timeout_response(url)
        /\ response.result.errors[1].message[2] = total_timeout

\* C4: once JavaScriptScraper.scrape has left its finally block (it returns,
\* or CancelledError goes on), no browser is left open.
C4_BrowserClosedOnExit ==
    pc \in ({"pw_exit", "merge_js", "assemble"} \cup Returned) => ~browserOpen

\* C4 witness: a browser was launched, the deadline cancelled the dynamic pass,
\* and the browser is closed when the timeout result is returned.
C4_Witness ==
    /\ pc = "returned_timeout"
    /\ browser = "browser"
    /\ cancelledAt \in {"browser", "evaluate"}
    /\ ~browserOpen

\* C5: every result assembled by _scrape_internal (static path, dynamic path,
\* failed dynamic path) has a non-empty pages log that starts with the seed URL.
C5_PagesStartWithSeed ==
    pc = "returned_result" =>
        /\ response.result.interactions.pages # << >>
        /\ Head(response.result.interactions.pages) = url

\* C6 as stated: whenever the static pass ends with under 100 characters of
\* section text (no sections included), the dynamic pass is run before the
\* result is assembled.
C6_Original ==
    (pc = "returned_result" /\ SumText(static_result.sections) < 100) =>
        pending = "return"

\* C6 amended: if the markup was fetched and the static pass ends with under
\* 100 characters of section text, the dynamic pass is run before the result is
\* assembled, a browser is launched and the four phases run unless launch, new
\* page or page load raised; after a failed fetch the dynamic pass is not run.
C6_DynamicAfterThinStaticPass ==
    pc = "returned_result" =>
        /\ (FetchOk /\ SumText(static_result.sections) < 100) =>
              /\ pending = "return"
              /\ (faults \cap {"launch", "new_page", "goto"} = {}) =>
                    (browser = "browser" /\ phases = AllPhases)
        /\ ~FetchOk => (pending = None /\ browser = None)

\* C6 witness: the static parse found no section, and the result is assembled
\* after a browser was launched and the four phases ran.
C6_Witness ==
    /\ pc = "returned_result"
    /\ FetchOk
    /\ static_result.sections = << >>
    /\ browser = "browser"
    /\ phases = AllPhases

\* C7: should_fallback_to_js is true if T < 100; else false without a framework
\* signature; else false if T > 500 and true if 100 <= T <= 500.
C7_FallbackPolicy ==
    p_result # << >> =>
        LET T == SumText(p_sections)
            F == HasSignature(p_html)
        IN  /\ p_result[1] = (IF T < 100 THEN TRUE
                              ELSE IF ~F THEN FALSE
                              ELSE IF T > 500 THEN FALSE ELSE TRUE)
            /\ (T = 50 => p_result[1])
            /\ (T = 600 => ~p_result[1])
            /\ (T = 80 /\ F => p_result[1])

\* C7 witness: 600 characters of text with a framework signature in upper
\* case: no dynamic rendering.
C7_Witness ==
    /\ p_result = << FALSE >>
    /\ SumText(p_sections) = 600
    /\ HasSignature(p_html)
    /\ ~(\E i \in 1..Len(js_frameworks) : Contains(js_frameworks[i], p_html))

\* C8: in a result assembled by _scrape_internal the chosen section list is
\* empty exactly when the result holds the one placeholder section and its
\* errors end with the no-sections parse error; a non-empty chosen list is
\* returned as it is, without that error.
C8_PlaceholderIffNoSections ==
    pc = "returned_result" =>
        LET r == response.result
        IN  /\ (Chosen = << >>) <=>
                  /\ IsPlaceholder(r.sections)
                  /\ r.errors # << >>
                  /\ r.errors[Len(r.errors)] = NoSectionsError
            /\ Chosen # << >> =>
                  /\ r.sections = Chosen
                  /\ \A i \in 1..Len(r.errors) : r.errors[i] # NoSectionsError

\* C8 witness: the dynamic pass also found no section, and the placeholder is
\* returned.
C8_Witness ==
    /\ pc = "returned_result"
    /\ pending = "return"
    /\ "js_parse" \notin faults
    /\ js_result.sections = << >>
    /\ IsPlaceholder(response.result.sections)

\* C9 as stated: when the dynamic pass was entered, the returned errors are the
\* static errors, then the dynamic errors, then at most the no-sections error.
C9_Original ==
    (pc \in ReturnedByScrape /\ DynamicRan) =>
        LET n == Len(static_result.errors)
            m == Len(errors)
            r == response.result.errors
        IN  /\ Len(r) \in {n + m, n + m + 1}
            /\ SubSeq(r, 1, n) = static_result.errors
            /\ SubSeq(r, n + 1, n + m) = errors
            /\ Len(r) = n + m + 1 => r[Len(r)] = NoSectionsError

\* C9 amended: when the dynamic pass ran and the result is assembled by
\* _scrape_internal, the returned errors are the static errors, then the
\* dynamic errors, then the no-sections error if the dynamic sections are empty.
C9_ErrorsConcatenated ==
    (pc = "returned_result" /\ pending = "return") =>
        response.result.errors =
            static_result.errors \o js_result.errors
            \o (IF js_result.sections = << >> THEN << NoSectionsError >> ELSE << >>)

\* C9 witness: both passes recorded an error and the result is assembled.
C9_Witness ==
    /\ pc = "returned_result"
    /\ pending = "return"
    /\ static_result.errors # << >>
    /\ js_result.errors # << >>

LoadMoreClicks(clicks) ==
    Cardinality({ i \in 1..Len(clicks) : clicks[i][1] = "Load More" })

\* a step in which a click() call of the automaton returns
ClickStep ==
    \/ pc = "tab_click" /\ pc' = "tab_sleep"
    \/ pc = "more_click" /\ pc' = "more_sleep"
    \/ pc = "next_click" /\ pc' = "next_load"

\* the awaits of the interaction phases at which a click() call may be pending
ClickPcs == {"tab_click", "more_click", "next_click"}

\* C11: in one scrape the load-more phase clicks at most max_depth (3)
\* load-more controls.
C11_LoadMoreBound ==
    phases # << >> => LoadMoreClicks(log.clicks) <= max_depth

\* C12: the phases entered are always an initial part of tabs, load-more,
\* scroll, pagination; when _perform_interactions returns, all four have run,
\* whatever was raised inside them; and in clicks no load-more entry precedes a
\* tab entry.
C12_PhasesInOrder ==
    /\ \E n \in 0..Len(AllPhases) : phases = SubSeq(AllPhases, 1, n)
    /\ pc = "content" => phases = AllPhases
    /\ (pc = "returned_result" /\ phases # << >>) => phases = AllPhases
    /\ phases # << >> =>
          \A i, j \in 1..Len(log.clicks) :
              (log.clicks[i][1] = "Load More" /\ log.clicks[j][1] = "Tab") => j < i

\* C12 witness: a tab and a load-more control were clicked, the scroll phase
\* raised before its first scroll, and the pagination phase still ran.
C12_Witness ==
    /\ pc = "content"
    /\ phases = AllPhases
    /\ log.scrolls = 0
    /\ \E i, j \in 1..Len(log.clicks) :
          log.clicks[i][1] = "Tab" /\ log.clicks[j][1] = "Load More"

\* C13: every step in which a click of the automaton succeeds (tab, load-more
\* or next-page) appends exactly one description to clicks, and a step in which
\* a click fails appends nothing.
C13_EveryClickLogged ==
    [][(pc \in ClickPcs) =>
          (IF ClickStep THEN Len(log'.clicks) = Len(log.clicks) + 1
                        ELSE log'.clicks = log.clicks)]_vars

\* C14: at most max_depth - 1 (2) next-page controls are clicked in a scrape.
C14_PaginationBound ==
    next_clicks <= max_depth - 1

\* the landmarks of the tree given to detect_sections whose cleaned text has
\* at least 10 characters, in document order
Qualifying == SelectSeq(Landmarks(x_snapshot), LAMBDA e : e.text >= 10)

\* C15: the first run of detect_sections returns one section per landmark with
\* at least 10 characters of cleaned text and none for the others, in the
\* document order of the landmarks.
C15_OneSectionPerQualifyingLandmark ==
    x_runs # << >> =>
        LET out == x_runs[1]
        IN  /\ Len(out) = Len(Qualifying)
            /\ \A k \in 1..Len(out) :
                  /\ out[k].content.text = Qualifying[k].text
                  /\ out[k].id[2] = Qualifying[k].tag
                  /\ out[k].id[3] = Qualifying[k].class
            /\ \A k \in 1..(Len(out) - 1) : out[k].id[4] < out[k + 1].id[4]

\* C15 witness: a footer with 8 characters followed by an article with exactly
\* 10: one section, for the article.
C15_Witness ==
    /\ x_snapshot.children = << E_foot8, E_art10 >>
    /\ x_runs # << >>
    /\ Len(x_runs[1]) = 1
    /\ x_runs[1][1].id[2] = "article"

\* C16: two runs of detect_sections on the same tree return the same sections.
C16_Idempotent ==
    Len(x_runs) = 2 => x_runs[1] = x_runs[2]

\* C16 witness: the first run has removed script or style elements from the
\* tree and returned a section, and the second run has been made.
C16_Witness ==
    /\ Len(x_runs) = 2
    /\ x_soup # x_snapshot
    /\ x_runs[1] # << >>
    /\ \E i \in 1..Len(x_snapshot.children) :
          x_snapshot.children[i].tag = "div" /\ x_snapshot.children[i].script > 0
          /\ IsLandmark(x_snapshot, x_snapshot.children[i])

\* C17: in every result returned by scrape the raw markup of every section has
\* at most 500 characters.
C17_RawHtmlCap ==
    pc \in ReturnedByScrape =>
        \A i \in 1..Len(response.result.sections) :
            response.result.sections[i].rawHtml <= max_length

\* the anchors of l_element that have an href, the images that have a src
WithHref == SelectSeq(l_element.anchors, LAMBDA t : t.has_href)
WithSrc == SelectSeq(l_element.imgs, LAMBDA t : t.has_src)

\* the positions of the entries of s (anchors or images) that resolve to target
Resolving(s, field, target) ==
    { k \in 1..Len(s) : normalize_url(l_base, s[k][field]) = target }

First(S) == CHOOSE k \in S : \A j \in S : k <= j

\* C18: no link is emitted for an anchor whose href is `#...`: no emitted href
\* carries a fragment (the other hrefs considered have none).
C18_NoInPageAnchorLinks ==
    l_result # << >> =>
        \A i \in 1..Len(l_result[1].links) :
            \A k \in 1..Len(l_result[1].links[i].href) :
                l_result[1].links[i].href[k] # "#"

\* C19: the links of a section have pairwise distinct resolved URLs; each is
\* that of some anchor and carries the text of the first anchor resolving to
\* it (the URL itself if that text is empty); the entries are in the order of
\* these first anchors; every anchor with a non-empty href that is not `#...`
\* is represented.  Likewise for images, with src and alt.
C19_LinksDeduplicated ==
    l_result # << >> =>
        LET links == l_result[1].links
            images == l_result[1].images
            KL(i) == Resolving(WithHref, "href", links[i].href)
            KI(i) == Resolving(WithSrc, "src", images[i].src)
        IN  /\ \A i, j \in 1..Len(links) : links[i].href = links[j].href => i = j
            /\ \A i \in 1..Len(links) :
                  /\ KL(i) # {}
                  /\ links[i].text = (IF WithHref[First(KL(i))].text # << >>
                                      THEN WithHref[First(KL(i))].text
                                      ELSE links[i].href)
            /\ \A i, j \in 1..Len(links) : i < j => First(KL(i)) < First(KL(j))
            /\ \A k \in 1..Len(WithHref) :
                  (WithHref[k].href # << >> /\ ~StartsWith(WithHref[k].href, "#")) =>
                      \E i \in 1..Len(links) : k \in KL(i)
            /\ \A i, j \in 1..Len(images) : images[i].src = images[j].src => i = j
            /\ \A i \in 1..Len(images) :
                  /\ KI(i) # {}
                  /\ images[i].alt = WithSrc[First(KI(i))].alt
            /\ \A i, j \in 1..Len(images) : i < j => First(KI(i)) < First(KI(j))
            /\ \A k \in 1..Len(WithSrc) :
                  WithSrc[k].src # << >> => \E i \in 1..Len(images) : k \in KI(i)

\* C19 witness: three anchors written differently resolve to the same URL and
\* one link is returned, with the text of the first.
C19_Witness ==
    /\ l_result # << >>
    /\ l_base = SeedUrl
    /\ l_element.anchors = << A(<< "a" >>, << "Docs" >>), A(<< "/", "a" >>, << "More" >>),
                              A(<< "//", "seed.example", "/", "a" >>, << "Cdn" >>) >>
    /\ l_result[1].links =
          << [text |-> << "Docs" >>,
              href |-> << "https:", "//", "seed.example", "/", "a" >>] >>

\* one of the words occurs in the lower-cased class list or id of c_element
Kw(words) ==
    \E w \in words : Contains(w, lower(c_element.class)) \/ Contains(w, lower(c_element.id))

HeroWords ==
    { << "h", "e", "r", "o" >>,
      << "b", "a", "n", "n", "e", "r" >>,
      << "j", "u", "m", "b", "o", "t", "r", "o", "n" >> }
PricingWords ==
    { << "p", "r", "i", "c", "i", "n", "g" >>,
      << "p", "r", "i", "c", "e" >>,
      << "p", "l", "a", "n" >> }
FaqWords ==
    { << "f", "a", "q" >>,
      << "q", "u", "e", "s", "t", "i", "o", "n" >>,
      << "a", "c", "c", "o", "r", "d", "i", "o", "n" >> }
GridWords ==
    { << "g", "r", "i", "d" >>,
      << "c", "a", "r", "d", "s" >>,
      << "f", "e", "a", "t", "u", "r", "e", "s" >> }
ListWords == { << "l", "i", "s", "t" >> }

\* C20 as stated: the type is that of the first matching rule among the tag
\* rules, the hero, pricing, faq and grid keywords, and two or more lists; an
\* element matching none of them is typed `section`.
C20_Original ==
    c_result # << >> =>
        c_result[1] =
            (IF c_element.tag = "nav" THEN "nav"
             ELSE IF c_element.tag = "footer" THEN "footer"
             ELSE IF c_element.tag = "header" THEN "hero"
             ELSE IF Kw(HeroWords) THEN "hero"
             ELSE IF Kw(PricingWords) THEN "pricing"
             ELSE IF Kw(FaqWords) THEN "faq"
             ELSE IF Kw(GridWords) THEN "grid"
             ELSE IF c_element.lists >= 2 THEN "list"
             ELSE "section")

\* C20 amended: as stated, with one more rule between the grid keywords and
\* the count of lists: the keyword `list` in the class list or id gives `list`.
C20_FirstMatchingRule ==
    c_result # << >> =>
        c_result[1] =
            (IF c_element.tag = "nav" THEN "nav"
             ELSE IF c_element.tag = "footer" THEN "footer"
             ELSE IF c_element.tag = "header" THEN "hero"
             ELSE IF Kw(HeroWords) THEN "hero"
             ELSE IF Kw(PricingWords) THEN "pricing"
             ELSE IF Kw(FaqWords) THEN "faq"
             ELSE IF Kw(GridWords) THEN "grid"
             ELSE IF Kw(ListWords) THEN "list"
             ELSE IF c_element.lists >= 2 THEN "list"
             ELSE "section")

\* C20 witness: a div of class `playlist` with id `accordion` and two lists
\* is typed faq: the faq keyword wins over the list keyword and the lists.
C20_Witness ==
    /\ c_result = << "faq" >>
    /\ c_element.tag = "div"
    /\ c_element.class = << "p", "l", "a", "y", "l", "i", "s", "t" >>
    /\ c_element.id = << "a", "c", "c", "o", "r", "d", "i", "o", "n" >>
    /\ c_element.lists = 2

\* the children of the tree given to detect_sections that are landmarks when
\* the fallback takes the children of body satisfying Candidate
Selected(Candidate(_)) ==
    IF \E i \in 1..Len(x_snapshot.children) : x_snapshot.children[i].tag \in SemanticTags
    THEN SelectSeq(x_snapshot.children, LAMBDA e : e.tag \in SemanticTags)
    ELSE IF x_snapshot.has_body
         THEN SelectSeq(x_snapshot.children, LAMBDA e : Candidate(e) /\ e.text > 50)
         ELSE << >>

RECURSIVE IdsFrom(_, _)
\* the ids of the sections of the landmarks from position index on: the
\* index hashed in an id is the position of its landmark among the landmarks
IdsFrom(landmarks, index) ==
    IF landmarks = << >> THEN << >>
    ELSE (IF Head(landmarks).text >= 10
          THEN << << "md5", Head(landmarks).tag, Head(landmarks).class, index >> >>
          ELSE << >>) \o IdsFrom(Tail(landmarks), index + 1)

\* the ids of the sections returned by the first run of detect_sections
FirstRunIds == [k \in 1..Len(x_runs[1]) |-> x_runs[1][k].id]

AnyTag(e) == TRUE
DivOnly(e) == e.tag = "div"

\* C21 as stated: the landmarks are the semantic elements in document order
\* if there is one, else the children of body, of any tag, with more than 50
\* characters of text.
C21_Original ==
    x_runs # << >> => FirstRunIds = IdsFrom(Selected(AnyTag), 0)

\* C21 amended: the landmarks are the semantic elements in document order if
\* there is one, else the div children of body with more than 50 characters
\* of text; a child of body of another tag is no landmark.
C21_LandmarkSelection ==
    x_runs # << >> => FirstRunIds = IdsFrom(Selected(DivOnly), 0)

\* C21 witness: a body without semantic element whose children are a div of 51
\* characters and a paragraph of 60: one section, for the div.
C21_Witness ==
    /\ x_snapshot = [has_body |-> TRUE, children |-> << E_div51, E_p60 >>]
    /\ x_runs # << >>
    /\ Len(x_runs[1]) = 1
    /\ x_runs[1][1].id[2] = "div"

\* the href `../c` and the protocol-relative src of the examples
UpHref == << "..", "/", "c" >>
CdnSrc == << "//", "cdn.example.com", "/", "x.png" >>

\* the element has an anchor with this href, an image with this src
HasHref(href) == \E k \in 1..Len(WithHref) : WithHref[k].href = href
HasSrc(src) == \E k \in 1..Len(WithSrc) : WithSrc[k].src = src

\* some returned link has this href, some returned image this src
LinkTo(href) == \E i \in 1..Len(l_result[1].links) : l_result[1].links[i].href = href
ImageAt(src) == \E i \in 1..Len(l_result[1].images) : l_result[1].images[i].src = src

\* C22 as stated: against the base https://example.com/a/b the href `../c`
\* resolves to https://example.com/a/c, and //cdn.example.com/x.png resolves
\* to that host and path under the scheme of the base.
C22_Original ==
    l_result # << >> =>
        /\ (l_base = ExampleBase /\ HasHref(UpHref)) =>
              LinkTo(<< "https:", "//", "example.com", "/", "a", "/", "c" >>)
        /\ HasSrc(CdnSrc) => ImageAt(<< l_base[1] >> \o CdnSrc)

\* C22 amended: against the base https://example.com/a/b the href `../c`
\* resolves to https://example.com/c (b is the last segment of the base, not
\* a directory); against https://example.com/a/b/ it resolves to
\* https://example.com/a/c; //cdn.example.com/x.png resolves to that host and
\* path under the scheme of the base.
C22_RelativeResolution ==
    l_result # << >> =>
        /\ (l_base = ExampleBase /\ HasHref(UpHref)) =>
              /\ LinkTo(<< "https:", "//", "example.com", "/", "c" >>)
              /\ ~LinkTo(<< "https:", "//", "example.com", "/", "a", "/", "c" >>)
        /\ (l_base = ExampleDir /\ HasHref(UpHref)) =>
              LinkTo(<< "https:", "//", "example.com", "/", "a", "/", "c" >>)
        /\ HasSrc(CdnSrc) => ImageAt(<< l_base[1] >> \o CdnSrc)

\* C22 witness: the anchor `../c` alone against https://example.com/a/b gives
\* one link, to https://example.com/c.
C22_Witness ==
    /\ l_result # << >>
    /\ l_base = ExampleBase
    /\ l_element.anchors = << A(UpHref, << "Up" >>) >>
    /\ l_result[1].links =
          << [text |-> << "Up" >>, href |-> << "https:", "//", "example.com", "/", "c" >>] >>

\* a step in which the scroll to the bottom of the page is performed
ScrollStep == pc = "scroll_to" /\ pc' = "scroll_sleep"

\* C23: scrolls never exceeds max_depth (3); it grows by one in each step that
\* scrolls to the bottom and in no other step of the automaton; and when the
\* wait for a greater height ends without a new iteration the phase is over
\* and scrolls no longer changes.
C23_ScrollBound ==
    /\ [](phases # << >> => log.scrolls <= max_depth)
    /\ [][(phases # << >>) =>
             (log'.scrolls = IF ScrollStep THEN log.scrolls + 1 ELSE log.scrolls)]_vars
    /\ [][(pc = "scroll_wait" /\ pc' # "scroll_height") =>
             (phases' = AllPhases)]_vars
    /\ [][(phases = AllPhases) => (phases' = AllPhases /\ pc' # "scroll_to")]_vars

\* C23 witness: the height grew after the first two scrolls, a third scroll
\* was made and the automaton has gone on to the pagination phase.
C23_Witness ==
    /\ phases = AllPhases
    /\ log.scrolls = max_depth

\* the awaits of the tab phase
TabPcs == {"tabs_query", "tab_click", "tab_sleep"}

\* the tab entries of clicks for the selector of index k
TabEntries(k) ==
    { i \in 1..Len(log.clicks) :
        log.clicks[i][1] = "Tab" /\ log.clicks[i][2] = tab_selectors[k] }

\* C24: a click is attempted only on one of the first 3 elements matching a
\* selector, each of them at most once and in order, so clicks holds at most 3
\* tab entries per selector and 12 in all; a click that fails logs nothing and
\* is followed by the next candidate of the selector or, after the last one,
\* by the query of the next selector; no selector is left out, and the phase
\* ends only after the fourth.
C24_TabAttemptsBounded ==
    /\ [](pc = "tab_click" => (idx < 3 /\ idx < tabs))
    /\ [](phases # << >> =>
             /\ \A k \in 1..4 : Cardinality(TabEntries(k)) <= 3
             /\ Len(log.clicks) <= 12)
    /\ [][(pc = "tab_click" /\ pc' # "tab_sleep") =>
             /\ log' = log
             /\ IF idx + 1 < tabs THEN pc' = "tab_click" /\ sel' = sel /\ idx' = idx + 1
                ELSE IF sel < 4 THEN pc' = "tabs_query" /\ sel' = sel + 1
                ELSE pc' \notin TabPcs]_vars
    /\ [][(pc' = "tab_click") =>
             \/ pc = "tabs_query" /\ sel' = sel /\ idx' = 0
             \/ pc \in {"tab_click", "tab_sleep"} /\ sel' = sel /\ idx' = idx + 1]_vars
    /\ [][(pc \in TabPcs /\ pc' = "tabs_query") => (sel' = sel + 1)]_vars
    /\ [][(pc \in TabPcs /\ pc' \notin TabPcs) => (sel = 4)]_vars

\* C24 witness: the last selector matched more than 3 elements; the click on
\* the first of them failed, the click on the second was logged, the third is
\* being attempted, and clicks of the first selector were logged before.
C24_Witness ==
    /\ pc = "tab_click"
    /\ sel = 4
    /\ tabs = 3
    /\ idx = 2
    /\ TabEntries(1) # {}
    /\ \E i \in TabEntries(4) : log.clicks[i][3] = 1
    /\ \A i \in TabEntries(4) : log.clicks[i][3] # 0

\* the awaits and tests of the four interaction phases
PhasePcs ==
    TabPcs
    \cup {"more_query", "more_visible", "more_click", "more_sleep", "more_check"}
    \cup {"scroll_height", "scroll_to", "scroll_sleep", "scroll_wait"}
    \cup {"next_query", "next_visible", "next_href", "next_click", "next_load", "next_check"}

\* the messages of the errors JavaScriptScraper.scrape and _perform_interactions
\* record
DynamicMessages ==
    { << "Page load timeout" >>, << "Failed to load page" >>, << "Interaction error" >>,
      << "Browser error" >>, << "Failed to parse HTML" >> }

\* C25: no step taken inside an interaction phase changes the errors list,
\* whether the awaited call returns, raises or is interrupted; and every error
\* of the dynamic pass is one of page load, automaton, browser or parsing.
C25_PhasesRecordNoError ==
    /\ [][(pc \in PhasePcs) => (errors' = errors)]_vars
    /\ [](\A i \in 1..Len(errors) : errors[i].message \in DynamicMessages)

\* C25 witness: the scroll phase raised before its first scroll after a tab
\* click was logged, the four phases are over and no error is recorded.
C25_Witness ==
    /\ pc = "content"
    /\ phases = AllPhases
    /\ log.scrolls = 0
    /\ log.clicks # << >>
    /\ errors = << >>

\* s is an initial part of t
IsPrefix(s, t) == Len(s) <= Len(t) /\ SubSeq(t, 1, Len(s)) = s

\* C26: the interaction log only grows (no entry of clicks or pages is
\* removed, scrolls does not decrease); and when reading the final DOM raised
\* after the phases, the dynamic pass ends its errors with a render error and
\* returns the log as it is, which the assembled result carries unchanged.
C26_PartialProgressKept ==
    /\ [][(phases # << >>) =>
             /\ IsPrefix(log.clicks, log'.clicks)
             /\ IsPrefix(log.pages, log'.pages)
             /\ log.scrolls <= log'.scrolls]_vars
    /\ []((pending = "return" /\ "content" \in faults) =>
             /\ js_result.interactions = log
             /\ js_result.errors # << >>
             /\ js_result.errors[Len(js_result.errors)].phase = "render"
             /\ js_result.errors[Len(js_result.errors)].message = << "Browser error" >>)
    /\ []((pc = "returned_result" /\ "content" \in faults) =>
             /\ response.result.interactions.clicks = log.clicks
             /\ response.result.interactions.scrolls = log.scrolls
             /\ response.result.interactions.pages = log.pages)

\* C26 witness: controls were clicked, the page was scrolled and a next page
\* visited, then reading the final DOM raised; the returned result carries the
\* clicks, the scrolls and the two pages.
C26_Witness ==
    /\ pc = "returned_result"
    /\ "content" \in faults
    /\ Len(response.result.interactions.clicks) >= 2
    /\ response.result.interactions.scrolls >= 1
    /\ Len(response.result.interactions.pages) = 2
    /\ \E i \in 1..Len(response.result.errors) :
          response.result.errors[i] = Err(<< "Browser error" >>, "render")

PageLoadTimeout == Err(<< "Page load timeout" >>, "render")
PageLoadFailed == Err(<< "Failed to load page" >>, "render")

\* the calls of the dynamic pass after the page load that may raise
AfterLoad == {"content", "js_parse"}

\* C27: after a page-load timeout one render error is recorded and the
\* automaton is entered; if nothing raises afterwards, the four phases run and
\* the dict returned holds that error alone, with the log of the phases.
\* After any other page-load failure no phase is ever entered and the dict
\* returned holds that one render error, no section, the empty metadata and
\* the empty log.
C27_PageLoadFailures ==
    /\ []("goto_timeout" \in faults =>
             /\ phases # << >>
             /\ errors # << >>
             /\ errors[1] = PageLoadTimeout
             /\ (pc \in PhasePcs \cup {"content", "js_parse"}) => errors = << PageLoadTimeout >>
             /\ (pending = "return" /\ faults \cap AfterLoad = {}) =>
                   /\ phases = AllPhases
                   /\ js_result.errors = << PageLoadTimeout >>
                   /\ js_result.interactions = log)
    /\ []("goto" \in faults =>
             /\ phases = << >>
             /\ errors = << PageLoadFailed >>
             /\ pc \notin PhasePcs \cup {"content", "js_parse"}
             /\ pending = "return" =>
                   /\ js_result.errors = << PageLoadFailed >>
                   /\ js_result.sections = << >>
                   /\ js_result.meta = empty_meta
                   /\ js_result.interactions =
                         [clicks |-> << >>, scrolls |-> 0, pages |-> << >>])
    /\ [][(pc = "goto" /\ "goto" \in faults') => (pc' = "error_close")]_vars

\* C27 witness: the page load timed out, the phases ran (a control was
\* clicked) and the extraction returned sections of the page as it was.
C27_Witness ==
    /\ pc = "merge_js"
    /\ "goto_timeout" \in faults
    /\ js_result.errors = << PageLoadTimeout >>
    /\ js_result.sections # << >>
    /\ js_result.interactions.clicks # << >>

\* the positions of the static pass, and those before the browser is launched
StaticPcs == {"static_get", "static_parse", "merge_static"}
BeforeLaunch == {"idle"} \cup StaticPcs \cup {"pw_start", "launch"}

\* C28: while the static pass runs no browser exists; a browser exists only
\* after a static pass that asked for dynamic rendering; the browser is
\* launched in one place, from a state without browser, and once launched the
\* request never goes back to the static pass nor to the launch; the dynamic
\* pass is entered only from the merge of a static result that asked for it.
C28_SequentialChain ==
    /\ [](pc \in {"idle"} \cup StaticPcs => (browser = None /\ ~browserOpen))
    /\ [](browser # None => static_result.needs_js_fallback)
    /\ [][(browser' # browser) => (pc = "launch" /\ browser = None)]_vars
    /\ [][(browser # None) => (pc' \notin BeforeLaunch)]_vars
    /\ [][(pc' = "pw_start") =>
             (pc = "merge_static" /\ static_result.needs_js_fallback)]_vars
    /\ [][(pc' = "launch") => (pc = "pw_start")]_vars

\* C28 witness: the static pass returned sections and asked for dynamic
\* rendering, and the browser launched afterwards is loading the page.
C28_Witness ==
    /\ pc = "goto"
    /\ browserOpen
    /\ static_result.sections # << >>
    /\ static_result.needs_js_fallback

====
